---- MODULE Spec2Model ----
(***************************************************************************)
(* Model of the relay gateway (package gateway): ConnectWithRelay, Listen  *)
(* with its accept loop, the per-connection handler and watcher            *)
(* goroutines, the drain, and the three lifecycle goroutines started by    *)
(* registerHeartBeat, registerPermissionLifecycle and                      *)
(* registerRelayIsActive; and of fnTriggerWebhook of the webhook service.  *)
(*                                                                         *)
(* Strings are sequences of tokens; a token is a run of characters that    *)
(* holds no ":" (or is the ":" itself), so strings.Split(s, ":") and       *)
(* strings.Contains(s, ":") are computed on them as Go computes them.      *)
(***************************************************************************)
EXTENDS Integers, Sequences, FiniteSets, TLC

(* ------------------------------ bounds -------------------------------- *)
MaxAddrLen == 6

MaxConns == 2

MaxHooks == 3

(* ------------------------------ strings ------------------------------- *)
Tokens == {":", "[", "]", "h", "5349", "80"}

PortTokens == {"5349", "80"}

RECURSIVE StringsUpTo(_)
StringsUpTo(n) ==
  IF n = 0 THEN {<<>>}
  ELSE LET shorter == StringsUpTo(n - 1)
       IN  shorter \cup {Append(s, t) : s \in {x \in shorter : Len(x) = n - 1}, t \in Tokens}

Contains(s, t) == \E i \in 1..Len(s) : s[i] = t

\* strings.Split(s, ":"): the fields between the separators, in order;
\* a string without separator gives the one field s.
RECURSIVE Split(_)
Split(s) ==
  IF ~Contains(s, ":") THEN <<s>>
  ELSE LET i == CHOOSE k \in 1..Len(s) : s[k] = ":" /\ \A j \in 1..(k - 1) : s[j] # ":"
       IN  <<SubSeq(s, 1, i - 1)>> \o Split(SubSeq(s, i + 1, Len(s)))

LastColon(s) == CHOOSE k \in 1..Len(s) : s[k] = ":" /\ \A j \in (k + 1)..Len(s) : s[j] # ":"

\* net.SplitHostPort as net.ResolveTCPAddr, tls.Dial and net.Dial apply it:
\* the port is what follows the last colon, the host what precedes it, an
\* IPv6 literal host being written between brackets.
HostPortOk(s) ==
  /\ Contains(s, ":")
  /\ LET i == LastColon(s)
         hostpart == SubSeq(s, 1, i - 1)
     IN  IF Len(hostpart) > 0 /\ hostpart[1] = "["
         THEN /\ hostpart[Len(hostpart)] = "]"
              /\ Len(hostpart) >= 2
              /\ \A j \in 2..(Len(hostpart) - 1) : hostpart[j] \notin {"[", "]"}
         ELSE \A j \in 1..Len(hostpart) : hostpart[j] \notin {":", "[", "]"}
  /\ \A j \in (LastColon(s) + 1)..Len(s) : s[j] \notin {"[", "]"}

PortOf(s) == SubSeq(s, LastColon(s) + 1, Len(s))

HostOf(s) ==
  LET hostpart == SubSeq(s, 1, LastColon(s) - 1)
  IN  IF Len(hostpart) > 0 /\ hostpart[1] = "["
      THEN SubSeq(hostpart, 2, Len(hostpart) - 1)
      ELSE hostpart

\* A host the resolver accepts: a name, nothing, or an IP literal (an IPv6
\* literal holds at least two colons).
ResolvableHost(h) ==
  \/ h = <<"h">>
  \/ h = <<>>
  \/ /\ Len(h) >= 2
     /\ \A j \in 1..Len(h) : h[j] \in {":", "h"}
     /\ Cardinality({j \in 1..Len(h) : h[j] = ":"}) >= 2
     /\ \A j \in 1..(Len(h) - 1) : ~(h[j] = "h" /\ h[j + 1] = "h")

\* An address the resolver can turn into a TCP address: host:port with a
\* one-token numeric port and a host that is a name or an IP literal.
Resolvable(s) ==
  /\ HostPortOk(s)
  /\ Len(PortOf(s)) = 1 /\ PortOf(s)[1] \in PortTokens
  /\ ResolvableHost(HostOf(s))

(* ------------------------------- state -------------------------------- *)
VARIABLES
  relayDetails,   \* response of api.CallRegisterGatewayIdentityV1
  connectPc,      \* ConnectWithRelay: "idle", "ok", "err", "panic"
  dial,           \* [mode, conn]: which dial ran and what conn holds
  g,              \* the Gateway: [client, InfisicalStaticIp, TurnServerAddress]
  listenPc,       \* position of the goroutine that runs Listen
  retErr,         \* value Listen returned ("unset" before it returns)
  ctxDone,        \* the caller's context is cancelled
  shutdownCh,     \* "none" (not made), "open", "closed"
  errCh,          \* buffered channel of capacity 1
  relay,          \* relayNonTlsConn and the listener wrapping it, g.client
  wg,             \* sync.WaitGroup counter
  waitPc,         \* goroutine running wg.Wait(); close(waitCh)
  graceFired,     \* time.After(5 * time.Second) has fired
  acceptPc,       \* position of the accept-loop goroutine
  acceptExit,     \* how the accept loop was left
  accepted,       \* number of connections relayConn.Accept() has returned
  cur,            \* conn, tlsConn, state of the running loop iteration
  handlers,       \* running go func(c net.Conn) goroutines, by connection
  hb,             \* goroutine of registerHeartBeat
  probe,          \* goroutine of registerRelayIsActive
  perm,           \* goroutine of registerPermissionLifecycle
  webhooks,       \* rows webhookDAL.findAllWebhooks returns, in order
  settled,        \* by webhook id: how the request to that webhook settles
  envFound,       \* projectEnvDAL.findOne finds the environment
  whPc,           \* fnTriggerWebhook: "idle", "returned", "threw"
  webhookDb       \* by webhook id: lastStatus, lastRunErrorMessage, writes

connectVars == <<relayDetails, connectPc, dial, g>>

listenVars == <<listenPc, retErr, ctxDone, shutdownCh, errCh, relay, wg, waitPc, graceFired>>

acceptVars == <<acceptPc, acceptExit, accepted, cur, handlers>>

taskVars == <<hb, probe, perm>>

webhookVars == <<webhooks, settled, envFound, whPc, webhookDb>>

vars == <<connectVars, listenVars, acceptVars, taskVars, webhookVars>>

NoDial == [mode |-> "none", conn |-> "none"]

NewGateway == [client |-> "nil", TurnServerAddress |-> <<>>, InfisicalStaticIp |-> <<>>]

\* if port not specific allow all port
NormalizeStaticIp(ip) ==
  IF ip # <<>> /\ ~Contains(ip, ":") THEN ip \o <<":", "0">> ELSE ip

\* The branch of ConnectWithRelay that dials: relayPort is the second field
\* of strings.Split(TurnServerAddress, ":").
RelayPort(addr) == Split(addr)[2]

UsesTls(addr) == RelayPort(addr) = <<"5349">>

\* The whole of ConnectWithRelay for one response and one outcome of each
\* call it makes.
ConnectOutcome(rd, regOk, resolveOk, dialOk, clientOk) ==
  IF ~regOk
  THEN [pc |-> "err", dial |-> NoDial, g |-> NewGateway]
  ELSE IF Len(Split(rd.addr)) < 2
  THEN [pc |-> "panic", dial |-> NoDial, g |-> NewGateway]
  ELSE IF UsesTls(rd.addr)
  THEN IF dialOk /\ Resolvable(rd.addr)
       THEN IF clientOk
            THEN [pc |-> "ok", dial |-> [mode |-> "tls", conn |-> "open"],
                  g |-> [client |-> "set", TurnServerAddress |-> rd.addr,
                         InfisicalStaticIp |-> NormalizeStaticIp(rd.staticIp)]]
            ELSE [pc |-> "err", dial |-> [mode |-> "tls", conn |-> "open"], g |-> NewGateway]
       ELSE [pc |-> "err", dial |-> [mode |-> "tls", conn |-> "nil"], g |-> NewGateway]
  ELSE IF ~(resolveOk /\ Resolvable(rd.addr))
  THEN [pc |-> "err", dial |-> NoDial, g |-> NewGateway]
  ELSE \* net.DialTCP assigns the err declared in the else block; the err
       \* tested after the block is the outer one, still nil
       LET c == IF dialOk THEN "open" ELSE "nil"
       IN  IF clientOk
           THEN [pc |-> "ok", dial |-> [mode |-> "tcp", conn |-> c],
                 g |-> [client |-> "set", TurnServerAddress |-> rd.addr,
                        InfisicalStaticIp |-> NormalizeStaticIp(rd.staticIp)]]
           ELSE [pc |-> "err", dial |-> [mode |-> "tcp", conn |-> c], g |-> NewGateway]

ConnectWithRelay ==
  /\ connectPc = "idle"
  /\ \E regOk \in BOOLEAN, resolveOk \in BOOLEAN, dialOk \in BOOLEAN, clientOk \in BOOLEAN :
       LET r == ConnectOutcome(relayDetails, regOk, resolveOk, dialOk, clientOk)
       IN  /\ connectPc' = r.pc
           /\ dial' = r.dial
           /\ g' = r.g
  /\ UNCHANGED <<relayDetails, listenVars, acceptVars, taskVars, webhookVars>>

(* ------------------------------ Listen -------------------------------- *)
\* A panic in any goroutine ends the process.
Crashed == acceptPc = "panicked" \/ waitPc = "panicked"

NoRelay ==
  [allocated |-> FALSE, addr |-> "", exchangeReq |-> "notCalled",
   closeCalls |-> 0, tlsListener |-> FALSE, clientCloseCalls |-> 0]

\* The deferred calls of Listen, run on every return in reverse order of
\* their registration: relayNonTlsConn.Close() if the allocation was made,
\* then g.client.Close().
RelayCloseOnlyAfterDrain(path) == IF path = "drained" THEN 1 ELSE 0

RelayCloseOnReturn(path) == 1

DeferredCloses(r, path) ==
  [r EXCEPT !.closeCalls = IF r.allocated THEN @ + RelayCloseOnReturn(path) ELSE @,
            !.clientCloseCalls = @ + 1]

Return(err, path) ==
  /\ listenPc' = "returned"
  /\ retErr' = err
  /\ relay' = DeferredCloses(relay, path)

\* g.client.Listen()
ListenStart ==
  /\ ~Crashed
  /\ connectPc = "ok" /\ listenPc = "idle"
  /\ \/ /\ listenPc' = "allocate"
        /\ UNCHANGED <<retErr, relay>>
     \/ Return("errListen", "listen")
  /\ UNCHANGED <<connectVars, ctxDone, shutdownCh, errCh, wg, waitPc, graceFired, acceptVars, taskVars, webhookVars>>

\* g.client.AllocateTCP() and the deferred close of the allocation
AllocateTCP ==
  /\ ~Crashed
  /\ listenPc = "allocate"
  /\ \/ /\ listenPc' = "exchange"
        /\ relay' = [relay EXCEPT !.allocated = TRUE, !.addr = "relayAddr"]
        /\ UNCHANGED retErr
     \/ Return("errAllocate", "allocate")
  /\ UNCHANGED <<connectVars, ctxDone, shutdownCh, errCh, wg, waitPc, graceFired, acceptVars, taskVars, webhookVars>>

RelayAddressEmpty(r) == ""

\* RelayAddress: relayNonTlsConn.Addr().String()
RelayAddress(r) == r.addr

\* api.CallExchangeRelayCertV1 with the address of the allocation, then
\* shutdownCh := make(chan bool, 1)
ExchangeRelayCert ==
  /\ ~Crashed
  /\ listenPc = "exchange"
  /\ LET called == [relay EXCEPT !.exchangeReq = RelayAddress(relay)]
     IN  \/ /\ listenPc' = "permission"
            /\ shutdownCh' = "open"
            /\ relay' = called
            /\ UNCHANGED retErr
         \/ /\ listenPc' = "returned"
            /\ retErr' = "errExchange"
            /\ relay' = DeferredCloses(called, "exchange")
            /\ UNCHANGED shutdownCh
  /\ UNCHANGED <<connectVars, ctxDone, errCh, wg, waitPc, graceFired, acceptVars, taskVars, webhookVars>>

\* net.ResolveTCPAddr("tcp", g.config.InfisicalStaticIp) can succeed
StaticIpResolvable(ip) ==
  /\ HostPortOk(ip)
  /\ Len(PortOf(ip)) = 1 /\ PortOf(ip)[1] \in PortTokens \cup {"0"}
  /\ ResolvableHost(HostOf(ip))

\* if g.config.InfisicalStaticIp != "": resolve it and start the permission
\* goroutine
PermissionSetup ==
  /\ ~Crashed
  /\ listenPc = "permission"
  /\ IF g.InfisicalStaticIp # <<>>
     THEN \/ /\ StaticIpResolvable(g.InfisicalStaticIp)
             /\ listenPc' = "keypair"
             /\ perm' = [perm EXCEPT !.pc = "first"]
             /\ UNCHANGED <<retErr, relay>>
          \/ /\ Return("errStaticIp", "staticip")
             /\ UNCHANGED perm
     ELSE /\ listenPc' = "keypair"
          /\ UNCHANGED <<retErr, relay, perm>>
  /\ UNCHANGED <<connectVars, ctxDone, shutdownCh, errCh, wg, waitPc, graceFired, acceptVars, hb, probe, webhookVars>>

\* tls.X509KeyPair, tls.NewListener, errCh := make(chan error, 1),
\* registerHeartBeat, registerRelayIsActive, go func() { accept loop }
StartListener ==
  /\ ~Crashed
  /\ listenPc = "keypair"
  /\ \/ /\ listenPc' = "select"
        /\ relay' = [relay EXCEPT !.tlsListener = TRUE]
        /\ hb' = [hb EXCEPT !.pc = "sleep"]
        /\ probe' = [probe EXCEPT !.pc = "select"]
        /\ acceptPc' = "top"
        /\ UNCHANGED retErr
     \/ /\ Return("errKeyPair", "keypair")
        /\ UNCHANGED <<hb, probe, acceptPc>>
  /\ UNCHANGED <<connectVars, ctxDone, shutdownCh, errCh, wg, waitPc, graceFired, acceptExit, accepted, cur, handlers, perm, webhookVars>>

\* select { case <-ctx.Done(): case err = <-errCh: }
MainSelect ==
  /\ ~Crashed
  /\ listenPc = "select"
  /\ \/ /\ ctxDone
        /\ UNCHANGED <<errCh, retErr>>
     \/ /\ Len(errCh) > 0
        /\ retErr' = Head(errCh)
        /\ errCh' = Tail(errCh)
  /\ listenPc' = "shutdown"
  /\ UNCHANGED <<connectVars, ctxDone, shutdownCh, relay, wg, waitPc, graceFired, acceptVars, taskVars, webhookVars>>

\* close(shutdownCh); go func() { wg.Wait(); close(waitCh) }()
CloseShutdownCh ==
  /\ ~Crashed
  /\ listenPc = "shutdown"
  /\ shutdownCh' = "closed"
  /\ waitPc' = "start"
  /\ listenPc' = "drain"
  /\ UNCHANGED <<connectVars, retErr, ctxDone, errCh, relay, wg, graceFired, acceptVars, taskVars, webhookVars>>

\* wg.Wait() is called: with the counter at zero it returns at once and
\* waitCh is closed, otherwise the goroutine registers as waiter and sleeps
WaitCall ==
  /\ ~Crashed
  /\ waitPc = "start"
  /\ waitPc' = IF wg = 0 THEN "done" ELSE "blocked"
  /\ UNCHANGED <<connectVars, listenPc, retErr, ctxDone, shutdownCh, errCh, relay, wg, graceFired, acceptVars, taskVars, webhookVars>>

\* the waiter released by the wg.Done() that reached zero wakes up:
\* Wait panics ("WaitGroup is reused before previous Wait has returned")
\* if the counter has moved since, else it returns and waitCh is closed
WaitWakeUp ==
  /\ ~Crashed
  /\ waitPc = "woken"
  /\ waitPc' = IF wg = 0 THEN "done" ELSE "panicked"
  /\ UNCHANGED <<connectVars, listenPc, retErr, ctxDone, shutdownCh, errCh, relay, wg, graceFired, acceptVars, taskVars, webhookVars>>

\* A goroutine that only has to run (a watcher woken by the closed
\* channel, the goroutine calling or leaving wg.Wait()) does so long before
\* five seconds are over: the timer fires only once these have acted.
GoroutinesQuiet ==
  /\ \A i \in DOMAIN handlers : handlers[i].closedBy # "none"
  /\ waitPc \notin {"start", "woken"}

\* time.After(5 * time.Second)
GraceTimer ==
  /\ ~Crashed
  /\ listenPc = "drain"
  /\ ~graceFired
  /\ GoroutinesQuiet
  /\ graceFired' = TRUE
  /\ UNCHANGED <<connectVars, listenPc, retErr, ctxDone, shutdownCh, errCh, relay, wg, waitPc, acceptVars, taskVars, webhookVars>>

DrainOverAtOnce == TRUE

\* select { case <-waitCh: case <-time.After(5 * time.Second): }
DrainOver == waitPc = "done" \/ graceFired

ReturnedNil(err) == "nil"

\* return err: err is nil unless the main select received from errCh
ReturnedErr(err) == IF err = "unset" THEN "nil" ELSE err

\* return err, after the drain
ListenReturn ==
  /\ ~Crashed
  /\ listenPc = "drain"
  /\ DrainOver
  /\ Return(ReturnedErr(retErr), "drained")
  /\ UNCHANGED <<connectVars, ctxDone, shutdownCh, errCh, wg, waitPc, graceFired, acceptVars, taskVars, webhookVars>>

\* the caller cancels ctx
CancelCtx ==
  /\ ~Crashed
  /\ connectPc = "ok"
  /\ ~ctxDone
  /\ ctxDone' = TRUE
  /\ UNCHANGED <<connectVars, listenPc, retErr, shutdownCh, errCh, relay, wg, waitPc, graceFired, acceptVars, taskVars, webhookVars>>

(* ---------------------------- accept loop ----------------------------- *)
\* What a peer presents in the handshake: no certificate, a certificate
\* that does not chain to ClientCAs, or one that does, with its Subject.
Peers ==
  { [presented |-> FALSE, trusted |-> FALSE, ou |-> <<>>, cn |-> ""],
    [presented |-> TRUE, trusted |-> FALSE, ou |-> <<"gateway-client">>, cn |-> "cloud"],
    [presented |-> TRUE, trusted |-> TRUE, ou |-> <<"gateway-client">>, cn |-> "cloud"],
    [presented |-> TRUE, trusted |-> TRUE, ou |-> <<"unknown">>, cn |-> "cloud"],
    [presented |-> TRUE, trusted |-> TRUE, ou |-> <<"gateway-client">>, cn |-> "other"],
    [presented |-> TRUE, trusted |-> TRUE, ou |-> <<>>, cn |-> "cloud"] }

NoConn == [id |-> 0, peer |-> CHOOSE p \in Peers : ~p.presented, hs |-> "none", closedBy |-> "none"]

HandshakeNoClientAuth(peer) == TRUE

\* ClientAuth: tls.RequireAndVerifyClientCert with ClientCAs: the handshake
\* can succeed only for a peer whose certificate chains to the pool.
HandshakeCanSucceed(peer) == peer.presented /\ peer.trusted

\* tlsConn.ConnectionState().PeerCertificates
PeerCertificates(c) ==
  IF c.hs = "ok" /\ c.peer.presented THEN <<[ou |-> c.peer.ou, cn |-> c.peer.cn]>> ELSE <<>>

AcceptErrors == {"timeout", "incomplete STUN or TURN frame", "other"}

RelayClosed == relay.closeCalls > 0

\* top of the for loop: select { case <-ctx.Done(): return
\* case <-shutdownCh: return default: ... }; the variables of the
\* iteration before are out of scope
AcceptSelect ==
  /\ ~Crashed
  /\ acceptPc = "top"
  /\ \/ /\ ctxDone
        /\ acceptPc' = "exited" /\ acceptExit' = "ctxDone"
     \/ /\ shutdownCh = "closed"
        /\ acceptPc' = "exited" /\ acceptExit' = "shutdownCh"
     \/ /\ ~ctxDone /\ shutdownCh # "closed"
        /\ acceptPc' = "accept" /\ UNCHANGED acceptExit
  /\ cur' = NoConn
  /\ UNCHANGED <<connectVars, listenVars, accepted, handlers, taskVars, webhookVars>>

\* relayConn.Accept() returns a connection; a connection handed out by a
\* tls listener is a *tls.Conn, so the type assertion holds
AcceptConn ==
  /\ ~Crashed
  /\ acceptPc = "accept"
  /\ ~RelayClosed
  /\ accepted < MaxConns
  /\ accepted' = accepted + 1
  /\ \E p \in Peers :
       cur' = [id |-> accepted + 1, peer |-> p, hs |-> "pending", closedBy |-> "none"]
  /\ acceptPc' = "handshake"
  /\ UNCHANGED <<connectVars, listenVars, acceptExit, handlers, taskVars, webhookVars>>

\* relayConn.Accept() returns an error: continue, whatever the error
AcceptError ==
  /\ ~Crashed
  /\ acceptPc = "accept"
  /\ \E e \in AcceptErrors : acceptPc' = "top"
  /\ UNCHANGED <<connectVars, listenVars, acceptExit, accepted, cur, handlers, taskVars, webhookVars>>

\* tlsConn.Handshake() under the 10 s deadline; on error conn.Close()
Handshake ==
  /\ ~Crashed
  /\ acceptPc = "handshake"
  /\ \/ /\ HandshakeCanSucceed(cur.peer)
        /\ cur' = [cur EXCEPT !.hs = "ok"]
        /\ acceptPc' = "check"
     \/ /\ cur' = [cur EXCEPT !.hs = "failed", !.closedBy = "accept"]
        /\ acceptPc' = "top"
  /\ UNCHANGED <<connectVars, listenVars, acceptExit, accepted, handlers, taskVars, webhookVars>>

\* the check of the peer certificate: "panic", "reject" or "dispatch"
CheckIdentity(c) ==
  LET certs == PeerCertificates(c)
  IN  IF Len(certs) > 0
      THEN IF Len(certs[1].ou) = 0 THEN "panic"   \* organizationUnit[0], index out of range
           ELSE IF certs[1].ou[1] # "gateway-client" \/ certs[1].cn # "cloud" THEN "reject"
           ELSE "dispatch"
      ELSE "dispatch"

\* the check, then conn.Close() or wg.Add(1) and
\* go func(c net.Conn) { ... handleConnection(c) }(conn)
CheckAndDispatch ==
  /\ ~Crashed
  /\ acceptPc = "check"
  /\ LET verdict == CheckIdentity(cur)
     IN  \/ /\ verdict = "panic"
            /\ acceptPc' = "panicked" /\ acceptExit' = "panic"
            /\ UNCHANGED <<cur, handlers, wg>>
         \/ /\ verdict = "reject"
            /\ cur' = [cur EXCEPT !.closedBy = "accept"]
            /\ acceptPc' = "top"
            /\ UNCHANGED <<acceptExit, handlers, wg>>
         \/ /\ verdict = "dispatch"
            /\ handlers' = [i \in DOMAIN handlers \cup {cur.id} |->
                              IF i = cur.id THEN cur ELSE handlers[i]]
            /\ wg' = wg + 1
            /\ acceptPc' = "top"
            /\ UNCHANGED <<acceptExit, cur>>
  /\ UNCHANGED <<connectVars, listenPc, retErr, ctxDone, shutdownCh, errCh, relay, waitPc, graceFired, accepted, taskVars, webhookVars>>

\* handleConnection(c) returns: the deferred c.Close(), then wg.Done(),
\* which releases the goroutine blocked in wg.Wait() when it reaches zero
HandlerDone ==
  /\ ~Crashed
  /\ \E i \in DOMAIN handlers :
       handlers' = [j \in DOMAIN handlers \ {i} |-> handlers[j]]
  /\ wg' = wg - 1
  /\ waitPc' = IF waitPc = "blocked" /\ wg = 1 THEN "woken" ELSE waitPc
  /\ UNCHANGED <<connectVars, listenPc, retErr, ctxDone, shutdownCh, errCh, relay, graceFired, acceptPc, acceptExit, accepted, cur, taskVars, webhookVars>>

\* the watcher goroutine: select { case <-ctx.Done(): c.Close()
\* case <-shutdownCh: c.Close() }
WatcherClose ==
  /\ ~Crashed
  /\ ctxDone \/ shutdownCh = "closed"
  /\ \E i \in DOMAIN handlers :
       /\ handlers[i].closedBy = "none"
       /\ handlers' = [handlers EXCEPT ![i].closedBy = "watcher"]
  /\ UNCHANGED <<connectVars, listenVars, acceptPc, acceptExit, accepted, cur, taskVars, webhookVars>>

\* InfisicalStaticIp of the registration response: none, a host, a host
\* with port, an IPv6 literal, a bracketed IPv6 literal with port
StaticIps ==
  { <<>>, <<"h">>, <<"h", ":", "80">>, <<":", ":", "h">>,
    <<"[", ":", ":", "h", "]", ":", "80">> }

InitListen ==
  /\ listenPc = "idle"
  /\ retErr = "unset"
  /\ ctxDone = FALSE
  /\ shutdownCh = "none"
  /\ errCh = <<>>
  /\ relay = NoRelay
  /\ wg = 0
  /\ waitPc = "none"
  /\ graceFired = FALSE
  /\ acceptPc = "none"
  /\ acceptExit = "none"
  /\ accepted = 0
  /\ cur = NoConn
  /\ handlers = <<>>
  /\ hb = [pc |-> "none", pending |-> "nil", last |-> "none"]
  /\ probe = [pc |-> "none", pending |-> "nil", failed |-> 0, sent |-> 0]
  /\ perm = [pc |-> "none", last |-> "none"]

\* no webhook job
InitNoWebhook ==
  /\ webhooks = <<>>
  /\ settled = <<>>
  /\ envFound = TRUE
  /\ whPc = "idle"
  /\ webhookDb = <<>>

InitConnect ==
  /\ relayDetails \in [addr : StringsUpTo(MaxAddrLen), staticIp : {<<>>}]
                      \cup [addr : {<<"h", ":", "5349">>}, staticIp : StaticIps]
  /\ connectPc = "idle"
  /\ dial = NoDial
  /\ g = NewGateway
  /\ InitListen
  /\ InitNoWebhook

NextConnect == ConnectWithRelay

SpecConnect == InitConnect /\ [][NextConnect]_vars

(* -------------------------- lifecycle tasks --------------------------- *)
CallResults == {"nil", "err"}

\* registerHeartBeat: time.Sleep(10 * time.Second), the first call; its
\* error is logged
HeartBeatFirst ==
  /\ ~Crashed
  /\ hb.pc = "sleep"
  /\ \E r \in CallResults : hb' = [hb EXCEPT !.pc = "select", !.last = r]
  /\ UNCHANGED <<connectVars, listenVars, acceptVars, probe, perm, webhookVars>>

\* case <-ticker.C: err := api.CallGatewayHeartBeatV1(g.httpClient)
HeartBeatTick ==
  /\ ~Crashed
  /\ hb.pc = "select"
  /\ \E r \in CallResults :
       hb' = [hb EXCEPT !.pc = "send", !.last = r,
                        !.pending = IF r = "err" THEN "hbErr" ELSE "nil"]
  /\ UNCHANGED <<connectVars, listenVars, acceptVars, probe, perm, webhookVars>>

\* errCh <- err, which blocks while the one slot is taken
HeartBeatSend ==
  /\ ~Crashed
  /\ hb.pc = "send"
  /\ Len(errCh) < 1
  /\ errCh' = Append(errCh, hb.pending)
  /\ hb' = [hb EXCEPT !.pc = "select", !.pending = "nil"]
  /\ UNCHANGED <<connectVars, listenPc, retErr, ctxDone, shutdownCh, relay, wg, waitPc, graceFired, acceptVars, probe, perm, webhookVars>>

\* case <-done: ticker.Stop(); return
HeartBeatStop ==
  /\ ~Crashed
  /\ hb.pc = "select"
  /\ shutdownCh = "closed"
  /\ hb' = [hb EXCEPT !.pc = "stopped"]
  /\ UNCHANGED <<connectVars, listenVars, acceptVars, probe, perm, webhookVars>>

ProbeReportsAlways(dialErr) == TRUE

\* registerRelayIsActive: if err != nil { errCh <- err; return }
ProbeReports(dialErr) == dialErr # "nil"

\* case <-ticker.C: conn, err := net.Dial("tcp", serverAddr); a dial
\* that succeeds closes conn and loops
ProbeTick ==
  /\ ~Crashed
  /\ probe.pc = "select"
  /\ \E r \in CallResults :
       probe' = [probe EXCEPT !.failed = IF r = "err" THEN @ + 1 ELSE @,
                              !.pending = IF r = "err" THEN "relayErr" ELSE "nil",
                              !.pc = IF ProbeReports(r) THEN "send" ELSE "select"]
  /\ UNCHANGED <<connectVars, listenVars, acceptVars, hb, perm, webhookVars>>

\* errCh <- err; return
ProbeSend ==
  /\ ~Crashed
  /\ probe.pc = "send"
  /\ Len(errCh) < 1
  /\ errCh' = Append(errCh, probe.pending)
  /\ probe' = [probe EXCEPT !.pc = "returned", !.sent = @ + 1]
  /\ UNCHANGED <<connectVars, listenPc, retErr, ctxDone, shutdownCh, relay, wg, waitPc, graceFired, acceptVars, hb, perm, webhookVars>>

\* case <-done: ticker.Stop(); return
ProbeStop ==
  /\ ~Crashed
  /\ probe.pc = "select"
  /\ shutdownCh = "closed"
  /\ probe' = [probe EXCEPT !.pc = "stopped"]
  /\ UNCHANGED <<connectVars, listenVars, acceptVars, hb, perm, webhookVars>>

\* registerPermissionLifecycle: the first permissionFn(), result dropped
PermissionFirst ==
  /\ ~Crashed
  /\ perm.pc = "first"
  /\ \E r \in CallResults : perm' = [perm EXCEPT !.pc = "select", !.last = r]
  /\ UNCHANGED <<connectVars, listenVars, acceptVars, hb, probe, webhookVars>>

\* case <-ticker.C: permissionFn()
PermissionTick ==
  /\ ~Crashed
  /\ perm.pc = "select"
  /\ \E r \in CallResults : perm' = [perm EXCEPT !.last = r]
  /\ UNCHANGED <<connectVars, listenVars, acceptVars, hb, probe, webhookVars>>

PermissionDoneAlways == TRUE

\* case <-done: of registerPermissionLifecycle is ready once the channel
\* is closed; nothing is ever sent on it
PermissionDone == shutdownCh = "closed"

\* case <-done: ticker.Stop(); return
PermissionStop ==
  /\ ~Crashed
  /\ perm.pc = "select"
  /\ PermissionDone
  /\ perm' = [perm EXCEPT !.pc = "stopped"]
  /\ UNCHANGED <<connectVars, listenVars, acceptVars, hb, probe, webhookVars>>

Init ==
  /\ relayDetails \in [addr : {<<"h", ":", "5349">>},
                       staticIp : {<<>>, <<"h">>, <<":", ":", "h">>}]
  /\ connectPc = "idle"
  /\ dial = NoDial
  /\ g = NewGateway
  /\ InitListen
  /\ InitNoWebhook

Next ==
  \/ ConnectWithRelay
  \/ ListenStart
  \/ AllocateTCP
  \/ ExchangeRelayCert
  \/ PermissionSetup
  \/ StartListener
  \/ MainSelect
  \/ CloseShutdownCh
  \/ WaitCall
  \/ WaitWakeUp
  \/ GraceTimer
  \/ ListenReturn
  \/ CancelCtx
  \/ AcceptSelect
  \/ AcceptConn
  \/ AcceptError
  \/ Handshake
  \/ CheckAndDispatch
  \/ HandlerDone
  \/ WatcherClose
  \/ HeartBeatFirst
  \/ HeartBeatTick
  \/ HeartBeatSend
  \/ HeartBeatStop
  \/ ProbeTick
  \/ ProbeSend
  \/ ProbeStop
  \/ PermissionFirst
  \/ PermissionTick
  \/ PermissionStop

Spec == Init /\ [][Next]_vars

(* ------------------------- fnTriggerWebhook --------------------------- *)
\* reason.message of a rejected request
Reasons == {"e1", "e2"}

Settlements == {"fulfilled"} \cup Reasons

\* webhooks.filter(({ secretPath: hookSecretPath, isDisabled }) =>
\*   !isDisabled && picomatch.isMatch(secretPath, hookSecretPath, ...))
toBeTriggeredHooks(ws) == SelectSeq(ws, LAMBDA h : ~h.isDisabled /\ h.matches)

\* await Promise.allSettled(toBeTriggeredHooks.map(...)): one result per
\* hook, in the order of the hooks
webhooksTriggered(hooks, settle) ==
  [i \in 1..Len(hooks) |->
     IF settle[hooks[i].id] = "fulfilled"
     THEN [status |-> "fulfilled", reason |-> ""]
     ELSE [status |-> "rejected", reason |-> settle[hooks[i].id]]]

\* .filter(({ status }) => status === "fulfilled")
\* .map((_, i) => toBeTriggeredHooks[i].id): i is the index in the
\* filtered array
successWebhooks(hooks, results) ==
  LET fulfilled == SelectSeq(results, LAMBDA x : x.status = "fulfilled")
  IN  [i \in 1..Len(fulfilled) |-> hooks[i].id]

\* .filter(({ status }) => status === "rejected")
\* .map((data, i) => ({ id: toBeTriggeredHooks[i].id, error: ... }))
failedWebhooks(hooks, results) ==
  LET rejected == SelectSeq(results, LAMBDA x : x.status = "rejected")
  IN  [i \in 1..Len(rejected) |-> [id |-> hooks[i].id, error |-> rejected[i].reason]]

\* webhookDAL.update({ envId, $in: { id: ids } },
\*   { lastStatus: "success", lastRunErrorMessage: null })
DbUpdateSuccess(db, ids) ==
  [w \in DOMAIN db |->
     IF \E i \in 1..Len(ids) : ids[i] = w
     THEN [lastStatus |-> "success", lastRunErrorMessage |-> "null",
           written |-> db[w].written \cup {"success"}]
     ELSE db[w]]

\* webhookDAL.bulkUpdate(failedWebhooks.map(({ id, error }) =>
\*   ({ id, lastRunErrorMessage: error, lastStatus: "failed" })))
DbBulkUpdateFailed(db, failed) ==
  [w \in DOMAIN db |->
     IF \E i \in 1..Len(failed) : failed[i].id = w
     THEN LET i == CHOOSE j \in 1..Len(failed) :
                     failed[j].id = w /\ \A k \in (j + 1)..Len(failed) : failed[k].id # w
          IN  [lastStatus |-> "failed", lastRunErrorMessage |-> failed[i].error,
               written |-> db[w].written \cup {"failed"}]
     ELSE db[w]]

\* The whole of fnTriggerWebhook: nothing to trigger, or the requests, the
\* two lists and the transaction, which throws when the environment is
\* not found and writes nothing then.
FnTriggerWebhook ==
  /\ whPc = "idle"
  /\ LET hooks == toBeTriggeredHooks(webhooks)
         results == webhooksTriggered(hooks, settled)
     IN  IF Len(hooks) = 0
         THEN whPc' = "returned" /\ UNCHANGED webhookDb
         ELSE IF ~envFound
         THEN whPc' = "threw" /\ UNCHANGED webhookDb
         ELSE /\ whPc' = "returned"
              /\ webhookDb' = DbBulkUpdateFailed(
                                DbUpdateSuccess(webhookDb, successWebhooks(hooks, results)),
                                failedWebhooks(hooks, results))
  /\ UNCHANGED <<webhooks, settled, envFound, connectVars, listenVars, acceptVars, taskVars>>

\* The rows of one environment: webhook i has id i; each is disabled or
\* not, matches the secret path or not, and its request settles one way.
InitWebhook ==
  /\ \E n \in 1..MaxHooks :
       /\ webhooks \in [1..n -> [id : 1..n, isDisabled : BOOLEAN, matches : BOOLEAN]]
       /\ \A i \in 1..n : webhooks[i].id = i
       /\ settled \in [1..n -> Settlements]
       /\ webhookDb = [w \in 1..n |->
                        [lastStatus |-> "none", lastRunErrorMessage |-> "none", written |-> {}]]
  /\ envFound \in BOOLEAN
  /\ whPc = "idle"
  /\ relayDetails = [addr |-> <<"h", ":", "5349">>, staticIp |-> <<>>]
  /\ connectPc = "idle"
  /\ dial = NoDial
  /\ g = NewGateway
  /\ InitListen

NextWebhook == FnTriggerWebhook

SpecWebhook == InitWebhook /\ [][NextWebhook]_vars

\* The scheduler runs every goroutine that can take a step, a send on
\* errCh completes once the slot is free, and a select whose done case is
\* ready over and over takes it at some point.
TaskFairness ==
  /\ WF_vars(HeartBeatFirst) /\ WF_vars(HeartBeatSend) /\ SF_vars(HeartBeatStop)
  /\ WF_vars(ProbeSend) /\ SF_vars(ProbeStop)
  /\ WF_vars(PermissionFirst) /\ SF_vars(PermissionStop)

\* Listen, the goroutine of wg.Wait(), the watchers and the steps of the
\* accept loop that wait for nothing outside the process run when they can.
\* No fairness for what the outside decides: cancellation, peers
\* connecting, handleConnection returning, a ticker firing.
ListenFairness ==
  /\ WF_vars(ListenStart) /\ WF_vars(AllocateTCP) /\ WF_vars(ExchangeRelayCert)
  /\ WF_vars(PermissionSetup) /\ WF_vars(StartListener) /\ WF_vars(MainSelect)
  /\ WF_vars(CloseShutdownCh) /\ WF_vars(WaitCall) /\ WF_vars(WaitWakeUp)
  /\ WF_vars(GraceTimer) /\ WF_vars(ListenReturn)
  /\ WF_vars(AcceptSelect) /\ WF_vars(Handshake) /\ WF_vars(CheckAndDispatch)
  /\ WF_vars(WatcherClose)

SpecLive == Init /\ [][Next]_vars /\ TaskFairness /\ ListenFairness

(* ------------------------------ claims -------------------------------- *)
\* The identity a claim calls unauthorized: the OrganizationalUnit is not
\* "gateway-client" (a Subject without any counts), or the CommonName is
\* not "cloud".
BadIdentity(peer) ==
  \/ peer.ou = <<>>
  \/ peer.ou[1] # "gateway-client"
  \/ peer.cn # "cloud"

\* C1: a connection whose handshake succeeded and whose leaf certificate
\* has an OrganizationalUnit other than "gateway-client" or a CommonName
\* other than "cloud" is never handed to handleConnection, and once the
\* check has run it is closed.
C1_UnauthorizedClosedNeverHandled ==
  /\ \A i \in DOMAIN handlers : ~(handlers[i].hs = "ok" /\ BadIdentity(handlers[i].peer))
  /\ (cur.hs = "ok" /\ BadIdentity(cur.peer)) => (acceptPc = "check" \/ cur.closedBy = "accept")

\* C2: every connection handed to handleConnection has completed its
\* handshake and presented a leaf certificate with OrganizationalUnit
\* "gateway-client" and CommonName "cloud"; one without peer certificate is
\* never dispatched.
C2_DispatchedAreAuthenticated ==
  \A i \in DOMAIN handlers :
    /\ handlers[i].hs = "ok"
    /\ Len(PeerCertificates(handlers[i])) > 0
    /\ ~BadIdentity(handlers[i].peer)

\* a connection is being handled while the loop has closed a later one
\* that presented no certificate
C2_Witness ==
  /\ \E i \in DOMAIN handlers : handlers[i].peer.presented
  /\ cur.id # 0 /\ ~cur.peer.presented /\ cur.hs = "failed" /\ cur.closedBy = "accept"

\* C3: once ctx is cancelled or shutdownCh is closed, no step accepts a
\* connection and no step dispatches one to handleConnection.
C3_NoAcceptAfterShutdown ==
  [][(ctxDone \/ shutdownCh = "closed")
       => (accepted' = accepted /\ DOMAIN handlers' \subseteq DOMAIN handlers)]_vars

\* C4: in the step by which Listen returns after the drain, every
\* dispatched connection whose handler still runs has been closed (by its
\* watcher); none is left open.
C4_NoOpenConnAtReturn ==
  [][(listenPc = "drain" /\ listenPc' = "returned")
       => \A i \in DOMAIN handlers' : handlers'[i].closedBy # "none"]_vars

\* Close of the listener made by tls.NewListener is Close of the
\* allocation it wraps: the listener is closed as often as the allocation
\* is, from the moment it exists.
TlsListenerCloses == IF relay.tlsListener THEN relay.closeCalls ELSE 0

\* C5: once Listen has returned after a successful AllocateTCP, the relay
\* allocation has been closed exactly once, and so has the TLS listener if
\* it was created; before the return neither is closed.
C5_ClosedExactlyOnce ==
  /\ (listenPc = "returned" /\ relay.allocated)
       => (relay.closeCalls = 1 /\ (relay.tlsListener => TlsListenerCloses = 1))
  /\ listenPc # "returned" => relay.closeCalls = 0

\* Listen has returned on the key-pair failure path or after the drain,
\* with the allocation closed
C5_Witness ==
  /\ listenPc = "returned" /\ relay.allocated /\ relay.closeCalls = 1
  /\ retErr = "errKeyPair" \/ relay.tlsListener

\* C6: a step in which a heartbeat call fails, the first call or a
\* periodic one, leaves the heartbeat goroutine sending that error on
\* errCh.
C6_FailedHeartBeatReported ==
  [][((\/ hb.pc = "sleep" /\ hb'.pc = "select"
       \/ hb.pc = "select" /\ hb'.pc = "send") /\ hb'.last = "err")
       => (hb'.pc = "send" /\ hb'.pending = "hbErr")]_vars

\* C7: the relay-liveness goroutine has sent, or is sending, one error for
\* each dial that failed, and nothing else: never two for one failure,
\* nothing for a dial that succeeded.
C7_OneErrorPerFailedDial ==
  /\ probe.sent + (IF probe.pc = "send" THEN 1 ELSE 0) = probe.failed
  /\ probe.pc = "send" => probe.pending = "relayErr"

\* a dial failed and its error has been sent
C7_Witness == probe.failed = 1 /\ probe.sent = 1 /\ probe.pc = "returned"

\* C8: the accept loop is left only through the ctx.Done() branch or the
\* shutdownCh branch of its select.
C8_LoopExitsOnlyOnSignal ==
  acceptPc \in {"exited", "panicked"} => acceptExit \in {"ctxDone", "shutdownCh"}

\* C9: for a relay address of the form host:port, ConnectWithRelay dials
\* with TLS exactly when the port is "5349", and plain TCP otherwise.
C9_TlsIffPort5349 ==
  (HostPortOk(relayDetails.addr) /\ dial.mode # "none")
    => (dial.mode = "tls" <=> PortOf(relayDetails.addr) = <<"5349">>)

\* C10: Listen has not returned after closing shutdownCh unless wg.Wait()
\* has returned (waitCh is closed) or the 5 s timer has fired.
C10_NoReturnBeforeDrain ==
  (listenPc = "returned" /\ shutdownCh = "closed") => (waitPc = "done" \/ graceFired)

\* Listen returned on the timeout while a handler was still running
C10_Witness ==
  listenPc = "returned" /\ graceFired /\ waitPc = "blocked" /\ wg > 0

\* C11: while Listen waits out the grace period (and after it), the accept
\* loop goroutine has already left its loop.
C11_AcceptStoppedBeforeDrain ==
  (shutdownCh = "closed" /\ listenPc \in {"drain", "returned"})
    => acceptPc \in {"exited", "panicked"}

\* C12: Listen leaves its main select only with ctx cancelled or with the
\* failure of a lifecycle task received from errCh; a heartbeat call that
\* succeeded does not make it leave.
C12_ShutdownOnlyOnCancelOrFailure ==
  [][(listenPc = "select" /\ listenPc' = "shutdown")
       => (ctxDone \/ retErr' \in {"hbErr", "relayErr"})]_vars

\* C13: when the dial of the relay server failed, on either branch,
\* ConnectWithRelay has returned an error and g.client is not set.
C13_DialFailureIsReturned ==
  (dial.mode # "none" /\ dial.conn = "nil")
    => (connectPc = "err" /\ g.client = "nil")

\* C14: once shutdownCh is closed, the three lifecycle goroutines end: each
\* has returned (or the process has ended); none stays in its send on
\* errCh for ever.
C14_TasksTerminate ==
  (shutdownCh = "closed")
    ~> (\/ Crashed
        \/ /\ hb.pc \in {"none", "stopped"}
           /\ probe.pc \in {"none", "stopped", "returned"}
           /\ perm.pc \in {"none", "stopped"})

\* C15: once Listen has returned, on whatever path, every lifecycle
\* goroutine it started has been told to stop (shutdownCh is closed) or has
\* ended already.
C15_TasksSignaledOnReturn ==
  listenPc = "returned"
    => \/ shutdownCh = "closed"
       \/ /\ hb.pc \in {"none", "stopped"}
          /\ probe.pc \in {"none", "stopped", "returned"}
          /\ perm.pc \in {"none", "stopped"}

\* C16: the certificate exchange is called only with an allocation made,
\* and for its address; when the exchange failed, Listen has returned that
\* error with the allocation closed, no TLS listener, no accept loop and no
\* lifecycle goroutine.
C16_ExchangeAfterAllocate ==
  /\ relay.exchangeReq # "notCalled"
       => (relay.allocated /\ relay.addr # "" /\ relay.exchangeReq = relay.addr)
  /\ retErr = "errExchange"
       => /\ listenPc = "returned"
          /\ relay.closeCalls = 1
          /\ ~relay.tlsListener
          /\ acceptPc = "none"
          /\ hb.pc = "none" /\ probe.pc = "none" /\ perm.pc = "none"

\* the exchange was called for the allocated address and failed
C16_Witness ==
  /\ retErr = "errExchange" /\ listenPc = "returned"
  /\ relay.allocated /\ relay.exchangeReq = "relayAddr"

\* C17: a step of the accept loop in which the handshake of the accepted
\* connection fails, or in which its identity check fails, closes that
\* connection and nothing else: the dispatched connections, shutdownCh,
\* ctx and errCh are as before, and the loop is at the top of its next
\* iteration.
C17_FailureClosesOnlyThatConn ==
  [][(\/ acceptPc = "handshake" /\ acceptPc' # "handshake" /\ cur'.hs = "failed"
      \/ acceptPc = "check" /\ acceptPc' # "check" /\ BadIdentity(cur.peer))
       => /\ cur'.closedBy = "accept"
          /\ handlers' = handlers
          /\ shutdownCh' = shutdownCh /\ ctxDone' = ctxDone /\ errCh' = errCh
          /\ acceptPc' = "top"]_vars

\* C18: the step that checks a handshaken connection whose leaf
\* certificate has no OrganizationalUnit closes it without dispatch and
\* leaves the loop running.
C18_EmptyOuIsRejected ==
  [][(/\ acceptPc = "check" /\ acceptPc' # "check"
      /\ Len(PeerCertificates(cur)) > 0
      /\ PeerCertificates(cur)[1].ou = <<>>)
       => /\ cur'.closedBy = "accept"
          /\ cur.id \notin DOMAIN handlers'
          /\ acceptPc' \notin {"panicked", "exited"}]_vars

\* C19: a permission refresh that fails, the first or a periodic one,
\* changes nothing but the goroutine's own state: errCh, shutdownCh and the
\* position and result of Listen are as before and the goroutine is back
\* in its select; the goroutine ends only with shutdownCh closed.
C19_PermissionFailureIsSilent ==
  /\ [](perm.pc = "stopped" => shutdownCh = "closed")
  /\ [][(perm' # perm /\ perm'.last = "err" /\ perm'.pc # "stopped")
          => /\ perm'.pc = "select"
             /\ errCh' = errCh /\ shutdownCh' = shutdownCh
             /\ listenPc' = listenPc /\ retErr' = retErr]_vars

\* a refresh has failed and the session is still listening, with nothing
\* on errCh
C19_Witness ==
  /\ perm.last = "err" /\ perm.pc = "select"
  /\ listenPc = "select" /\ shutdownCh = "open" /\ errCh = <<>>

\* An address carries an explicit port when it splits into host and port.
HasExplicitPort(ip) == HostPortOk(ip)

\* The address with port 0 (an IPv6 literal goes between brackets).
WithPortZero(ip) ==
  IF Contains(ip, ":") THEN <<"[">> \o ip \o <<"]", ":", "0">> ELSE ip \o <<":", "0">>

\* Listen is past the point where it starts the permission goroutine
PastPermissionStep ==
  /\ relay.exchangeReq # "notCalled"
  /\ listenPc # "permission"
  /\ retErr \notin {"errExchange", "errStaticIp"}

\* C20: the permission goroutine is started exactly when registration
\* returned a static egress address, and the address Listen uses for it is
\* the returned one if that has a port, else the returned one with port 0.
C20_PermissionTargetNormalized ==
  /\ perm.pc # "none" => relayDetails.staticIp # <<>>
  /\ PastPermissionStep => (perm.pc # "none" <=> relayDetails.staticIp # <<>>)
  /\ connectPc = "ok"
       => g.InfisicalStaticIp =
            IF relayDetails.staticIp = <<>> THEN <<>>
            ELSE IF HasExplicitPort(relayDetails.staticIp) THEN relayDetails.staticIp
            ELSE WithPortZero(relayDetails.staticIp)

\* C21: what Listen returns after the drain is the error its main select
\* received from errCh when a heartbeat or liveness failure made it leave
\* the select, and nil when it left through ctx.Done().
C21_ReturnsTriggeringError ==
  /\ [][(listenPc = "select" /\ listenPc' = "shutdown")
          => retErr' = IF errCh' # errCh THEN Head(errCh) ELSE "unset"]_vars
  /\ [][(listenPc \in {"shutdown", "drain"})
          => retErr' = IF listenPc' = "returned" /\ retErr = "unset" THEN "nil"
                       ELSE retErr]_vars

\* Listen has returned the failure of a lifecycle task, ctx not cancelled
C21_Witness ==
  /\ listenPc = "returned" /\ shutdownCh = "closed" /\ ~ctxDone
  /\ retErr \in {"hbErr", "relayErr"}

\* C22: the wait group counts the running handler goroutines, is never
\* negative, and once wg.Wait() has been released by a zero count it is
\* not incremented and no handler starts; so with waitCh closed no handler
\* is running.
C22_WaitGroupTracksHandlers ==
  /\ [](wg = Cardinality(DOMAIN handlers) /\ wg >= 0)
  /\ [][(waitPc \in {"woken", "done"})
          => (wg' <= wg /\ DOMAIN handlers' \subseteq DOMAIN handlers)]_vars
  /\ [](waitPc = "done" => DOMAIN handlers = {})

\* C23: after fnTriggerWebhook has returned from its transaction, every
\* webhook that was triggered is recorded with the outcome of its own
\* request: "success" if that request was fulfilled, "failed" with that
\* request's message if it was rejected, and it was written under one
\* status only.
C23_StatusOfOwnRequest ==
  (whPc = "returned" /\ envFound)
    => \A i \in 1..Len(webhooks) :
         LET h == webhooks[i]
         IN  (~h.isDisabled /\ h.matches)
               => /\ settled[h.id] = "fulfilled" => webhookDb[h.id].lastStatus = "success"
                  /\ settled[h.id] \in Reasons
                       => /\ webhookDb[h.id].lastStatus = "failed"
                          /\ webhookDb[h.id].lastRunErrorMessage = settled[h.id]
                  /\ Cardinality(webhookDb[h.id].written) <= 1

====
